---- MODULE Spec2Model ----
(***************************************************************************)
(* A model of mcp-database: the connector factory, the three dialect       *)
(* connectors (Postgres, MySQL, SQLite) and the three MCP tool handlers.   *)
(*                                                                         *)
(* Identifiers (table, schema and column names, tool arguments) are        *)
(* sequences of one-character strings, so that quoting, splitting,         *)
(* trimming and LIKE matching are computed as the code and backend do.     *)
(* An operation is a pure operator returning the trace of what it sent to  *)
(* the backend together with its Go return values; one action per          *)
(* operation applies it to the current connector and backend.              *)
(***************************************************************************)
EXTENDS Integers, Sequences, FiniteSets, TLC

VARIABLES backend, dbChanged, conn, handles, factory, call, pool, calls

vars == <<backend, dbChanged, conn, handles, factory, call, pool, calls>>

-----------------------------------------------------------------------------
(* Generic helpers *)

Range(s) == { s[i] : i \in 1..Len(s) }

Min(a, b) == IF a <= b THEN a ELSE b

Prefix(s, n) == SubSeq(s, 1, Min(n, Len(s)))

RECURSIVE Join(_, _)
Join(parts, sep) ==
  IF parts = <<>> THEN <<>>
  ELSE IF Len(parts) = 1 THEN parts[1]
  ELSE parts[1] \o sep \o Join(Tail(parts), sep)

-----------------------------------------------------------------------------
(* Names used by the model's backends and requests *)

Users == <<"u","s","e","r","s">>
Orders == <<"o","r","d","e","r","s">>
Ghost == <<"g","h","o","s","t">>
VUsers == <<"v","_","u","s","e","r","s">>
Public == <<"p","u","b","l","i","c">>
Audit == <<"a","u","d","i","t">>
PgCatalog == <<"p","g","_","c","a","t","a","l","o","g">>
PgClass == <<"p","g","_","c","l","a","s","s">>
InformationSchema == <<"i","n","f","o","r","m","a","t","i","o","n","_","s","c","h","e","m","a">>
SqlFeatures == <<"s","q","l","_","f","e","a","t","u","r","e","s">>
App == <<"a","p","p">>
Shop == <<"s","h","o","p">>
MysqlDb == <<"m","y","s","q","l">>
MysqlDbTable == <<"d","b">>
SqliteSequence == <<"s","q","l","i","t","e","_","s","e","q","u","e","n","c","e">>
SqliteData == <<"s","q","l","i","t","e","d","a","t","a">>
V1Log == <<"v","1",".","l","o","g">>
OrderItems == <<"o","r","d","e","r"," ","i","t","e","m","s">>
IdxUsersName == <<"i","d","x","_","u","s","e","r","s","_","n","a","m","e">>
IdxUsersNameId == <<"u","q","_","n","a","m","e","_","i","d">>
IdxUsersLower == <<"i","x","_","l","o","w","e","r">>
ColId == <<"i","d">>
ColName == <<"n","a","m","e">>
ColTotal == <<"t","o","t","a","l">>
ColAt == <<"a","t">>

-----------------------------------------------------------------------------
(* Bounds of the model *)

\* Row count of the large table of each backend (more than the default limit).
MaxRows == 12

\* Row count of the small table of each backend.
FewRows == 3

\* Largest absolute value of a limit passed by a caller.
MaxLimit == 11

-----------------------------------------------------------------------------
(* The backend: the catalog each connector's SQL reads.  A catalog row is   *)
(* one row of information_schema.tables (Postgres, MySQL) or of            *)
(* sqlite_master (SQLite), with the table's columns, row count, primary    *)
(* key and indexes attached.                                               *)

Col(name, type, notnull) == [name |-> name, type |-> type, notnull |-> notnull]

Idx(name, cols, unique, origin) ==
  [name |-> name, cols |-> cols, unique |-> unique, origin |-> origin]

Tbl(schema, name, type, nrows, indexes) ==
  [schema |-> schema, name |-> name, type |-> type,
   cols |-> <<Col(ColId, "integer", TRUE), Col(ColName, "text", FALSE)>>,
   nrows |-> nrows, pk |-> <<ColId>>, indexes |-> indexes]

\* The same table with other columns.
WithCols(t, cols) == [t EXCEPT !.cols = cols]

OrdersCols == <<Col(ColId, "bigint", TRUE), Col(ColTotal, "numeric", TRUE)>>

AuditCols ==
  <<Col(ColId, "integer", TRUE), Col(ColAt, "timestamp", FALSE), Col(ColName, "text", TRUE)>>

UsersIndexes ==
  <<Idx(<<"p","k">>, <<ColId>>, TRUE, "pk"),
    Idx(IdxUsersName, <<ColName>>, FALSE, "c"),
    Idx(IdxUsersNameId, <<ColName, ColId>>, TRUE, "u")>>

\* Postgres: information_schema.tables lists the base tables of pg_catalog
\* and information_schema beside the user schemas.
PgSystemTables ==
  <<Tbl(PgCatalog, PgClass, "BASE TABLE", FewRows, <<>>),
    Tbl(InformationSchema, SqlFeatures, "BASE TABLE", FewRows, <<>>)>>

PgUserTables ==
  { <<Tbl(Public, Users, "BASE TABLE", MaxRows, UsersIndexes),
      WithCols(Tbl(Public, Orders, "BASE TABLE", FewRows, <<>>), OrdersCols),
      Tbl(Public, VUsers, "VIEW", FewRows, <<>>)>>,
    <<Tbl(Public, Users, "BASE TABLE", MaxRows, UsersIndexes),
      WithCols(Tbl(Audit, Users, "BASE TABLE", FewRows, <<>>), AuditCols),
      Tbl(Public, V1Log, "BASE TABLE", FewRows, <<>>)>> }

\* MySQL: information_schema.tables lists every database of the server;
\* DATABASE() is the database named by the connection string.
CurrentDatabase == App

MySQLOtherTables ==
  <<Tbl(MysqlDb, MysqlDbTable, "BASE TABLE", FewRows, <<>>),
    WithCols(Tbl(Shop, Orders, "BASE TABLE", FewRows, <<>>), AuditCols)>>

MySQLUserTables ==
  { <<Tbl(App, Users, "BASE TABLE", MaxRows, UsersIndexes),
      WithCols(Tbl(App, Orders, "BASE TABLE", FewRows, <<>>), OrdersCols),
      Tbl(App, VUsers, "VIEW", FewRows, <<>>)>>,
    <<Tbl(App, Users, "BASE TABLE", MaxRows, UsersIndexes)>> }

\* SQLite: sqlite_master holds tables, views and indexes; names beginning
\* with sqlite_ are reserved for the engine's own tables.
SQLiteSystemTables ==
  <<Tbl(<<>>, SqliteSequence, "table", FewRows, <<>>),
    Tbl(<<>>, IdxUsersName, "index", 0, <<>>)>>

\* pragma_index_info names no column for an index on an expression.
SQLiteUsersIndexes ==
  UsersIndexes \o <<Idx(IdxUsersLower, <<>>, FALSE, "c")>>

SQLiteUserTables ==
  { <<Tbl(<<>>, Users, "table", MaxRows, SQLiteUsersIndexes),
      WithCols(Tbl(<<>>, Orders, "table", FewRows, <<>>), OrdersCols),
      Tbl(<<>>, VUsers, "view", FewRows, <<>>)>>,
    <<Tbl(<<>>, Users, "table", MaxRows, SQLiteUsersIndexes),
      Tbl(<<>>, SqliteData, "table", FewRows, <<>>),
      Tbl(<<>>, OrderItems, "table", FewRows, <<>>)>> }

Dialects == {"postgres", "mysql", "sqlite"}

\* readOnlyEnforced: whether the driver and server reject writes inside a
\* transaction begun with TxOptions{ReadOnly: true}.  Postgres and MySQL do;
\* for SQLite it depends on the driver (go-sqlite3 ignores the option).
Backends ==
  { [dialect |-> "postgres", tables |-> PgSystemTables \o u,
     readOnlyEnforced |-> TRUE] : u \in PgUserTables }
  \cup
  { [dialect |-> "mysql", tables |-> MySQLOtherTables \o u,
     readOnlyEnforced |-> TRUE] : u \in MySQLUserTables }
  \cup
  { [dialect |-> "sqlite", tables |-> SQLiteSystemTables \o u,
     readOnlyEnforced |-> e] : u \in SQLiteUserTables, e \in BOOLEAN }


-----------------------------------------------------------------------------
(* SQL text.  A statement is its format string with the values that were   *)
(* interpolated into it or bound to its placeholders.                      *)

Stmt(sql, args, limit) == [sql |-> sql, args |-> args, limit |-> limit]

NoStmt == Stmt("", <<>>, 0)

SelectPlain == "SELECT * FROM %s LIMIT %d"
\* BQ stands for the backquote character, which a TLA+ string cannot hold.
BQ == "BQ"

SelectBacktick == "SELECT * FROM BQ%sBQ LIMIT %d"
InsertInto == "INSERT INTO %s DEFAULT VALUES"
DropTable == "DROP TABLE %s"

IsSelect(s) == s.sql \in {SelectPlain, SelectBacktick}

DQ == <<"\"">>

QuoteIdent(x) == DQ \o x \o DQ

\* The characters that end an unquoted identifier in a statement.
Delimiters == {".", " ", "\"", BQ}

\* The spellings of identifier x in a statement outside backticks: between
\* double quotes, and bare when no character of it ends an identifier.
Spellings(x) ==
  {QuoteIdent(x)} \cup (IF Range(x) \cap Delimiters = {} THEN {x} ELSE {})

\* The spellings under which the backend's parser finds catalog row r in a
\* FROM clause written without backticks.
PlainSpellings(d, r) ==
  CASE d = "postgres" ->
         {sc \o <<".">> \o n : sc \in Spellings(r.schema), n \in Spellings(r.name)}
         \cup (IF r.schema = Public THEN Spellings(r.name) ELSE {})
    [] d = "mysql" ->
         IF r.schema = CurrentDatabase THEN Spellings(r.name) \ {QuoteIdent(r.name)} ELSE {}
    [] OTHER ->
         IF r.type \in {"table", "view"} THEN Spellings(r.name) ELSE {}

\* The catalog rows a FROM clause addresses (none: the statement fails).
Resolve(b, s) ==
  LET d == b.dialect
      text == s.args[1]
  IN  IF s.sql = SelectBacktick
      THEN IF d = "postgres" \/ BQ \in Range(text) THEN <<>>
           ELSE SelectSeq(b.tables,
                  LAMBDA r : r.name = text
                             /\ (d = "mysql" => r.schema = CurrentDatabase)
                             /\ (d = "sqlite" => r.type \in {"table", "view"}))
      ELSE SelectSeq(b.tables, LAMBDA r : text \in PlainSpellings(d, r))

Row(r, i) == [schema |-> r.schema, table |-> r.name, row |-> i]

\* What the backend does with one statement sent on a transaction whose
\* read-only flag is readOnly: the rows of the addressed table up to the
\* limit, or the write, or an error.
Exec(b, s, readOnly) ==
  LET found == Resolve(b, s)
  IN  IF found = <<>> THEN [ok |-> FALSE, rows |-> <<>>, wrote |-> FALSE]
      ELSE IF IsSelect(s)
      THEN [ok |-> TRUE,
            rows |-> [i \in 1..Min(IF s.limit < 0 THEN 0 ELSE s.limit, found[1].nrows)
                        |-> Row(found[1], i)],
            wrote |-> FALSE]
      ELSE IF readOnly /\ b.readOnlyEnforced
      THEN [ok |-> FALSE, rows |-> <<>>, wrote |-> FALSE]
      ELSE [ok |-> TRUE, rows |-> <<>>, wrote |-> TRUE]

-----------------------------------------------------------------------------
(* The trace of a call: the transactions it begins and ends and the        *)
(* statements it sends, each with the transaction it is sent on (0: the    *)
(* bare handle).                                                          *)

\* sql.TxOptions{ReadOnly: true}, the options of every BeginTxx.
TxOptionsReadWrite == [readOnly |-> FALSE]

TxOptions == [readOnly |-> TRUE]

BeginEv(tx) == [ev |-> "begin", tx |-> tx, readOnly |-> TxOptions.readOnly, stmt |-> NoStmt]

StmtEv(tx, s) == [ev |-> "stmt", tx |-> tx, readOnly |-> FALSE, stmt |-> s]

\* defer tx.Commit()
NoCommitEv(tx) == [ev |-> "return", tx |-> tx, readOnly |-> FALSE, stmt |-> NoStmt]

CommitEv(tx) == [ev |-> "commit", tx |-> tx, readOnly |-> FALSE, stmt |-> NoStmt]

\* The cursor (*sql.Rows) a successful QueryContext returns, and its end:
\* rows.Next() closes the cursor when it returns false, the deferred
\* rows.Close() closes it on an early return.
OpenEv(tx, s) == [ev |-> "open", tx |-> tx, readOnly |-> FALSE, stmt |-> s]

CloseEv(tx, s) == [ev |-> "close", tx |-> tx, readOnly |-> FALSE, stmt |-> s]

\* A statement whose rows are read to the end with nothing sent in between.
Cursor(tx, s) == <<StmtEv(tx, s), OpenEv(tx, s), CloseEv(tx, s)>>

RECURSIVE Flatten(_)
Flatten(seqs) == IF seqs = <<>> THEN <<>> ELSE Head(seqs) \o Flatten(Tail(seqs))

\* A backend failure injected into a call: the step that fails, and for a
\* step inside a loop the iteration at which it fails.
Fault(step, at) == [step |-> step, at |-> at]

NoFault == Fault("none", 0)

Nil == "nil"

-----------------------------------------------------------------------------
(* Query and Sample (identical in the three connectors but for Sample's    *)
(* quoting)                                                                *)

QueryResult(trace, err, rows, wrote) ==
  [trace |-> trace, err |-> err, rows |-> rows, wrote |-> wrote]

Query(b, sqlQuery, fault) ==
  IF fault.step = "begin"
  THEN QueryResult(<<>>, "BeginTx failed with error", <<>>, FALSE)
  ELSE LET r == Exec(b, sqlQuery, TxOptions.readOnly)
           failed == <<BeginEv(1), StmtEv(1, sqlQuery), CommitEv(1)>>
           done == <<BeginEv(1)>> \o Cursor(1, sqlQuery) \o <<CommitEv(1)>>
       IN  IF fault.step = "query" \/ ~r.ok
           THEN QueryResult(failed, "unable to query db", <<>>, FALSE)
           ELSE IF fault.step = "rowscan" /\ r.rows # <<>>
           THEN QueryResult(done, "unable to scan row", <<>>, r.wrote)
           \* rows.Next() returns false when fetching the next row fails (the
           \* backend failed, ctx was cancelled); rows.Err() is not read.
           ELSE IF fault.step = "next"
           THEN QueryResult(done, "", Prefix(r.rows, fault.at), r.wrote)
           ELSE QueryResult(done, "", r.rows, r.wrote)

DefaultLimit == 10

SampleSQL(d, table, limit) ==
  Stmt(IF d = "mysql" THEN SelectBacktick ELSE SelectPlain, <<table>>, limit)

SampleLimitOnlyNegative(limit) == IF limit < 0 THEN DefaultLimit ELSE limit

SampleLimit(limit) == IF limit <= 0 THEN DefaultLimit ELSE limit

Sample(b, table, limit, fault) ==
  Query(b, SampleSQL(b.dialect, table, SampleLimit(limit)), fault)


-----------------------------------------------------------------------------
(* Scan and loadColumns *)

\* SQLite's LIKE: % matches any run of characters, _ any one character.
RECURSIVE Like(_, _)
Like(pattern, s) ==
  IF pattern = <<>> THEN s = <<>>
  ELSE IF Head(pattern) = "%"
  THEN Like(Tail(pattern), s) \/ (s # <<>> /\ Like(pattern, Tail(s)))
  ELSE IF s = <<>> THEN FALSE
  ELSE (Head(pattern) = "_" \/ Head(pattern) = Head(s)) /\ Like(Tail(pattern), Tail(s))

SqlitePattern == <<"s","q","l","i","t","e","_","%">>

TablesSQL(d, tablesList) ==
  Stmt(CASE d = "postgres" ->
              IF Len(tablesList) > 0
              THEN "SELECT table_name, table_schema FROM information_schema.tables WHERE table_type = 'BASE TABLE' AND table_name IN ($1..$n)"
              ELSE "SELECT table_name, table_schema FROM information_schema.tables WHERE table_type = 'BASE TABLE'"
         [] d = "mysql" ->
              IF Len(tablesList) > 0
              THEN "SELECT table_name, table_schema FROM information_schema.tables WHERE table_type = 'BASE TABLE' AND table_schema = DATABASE() AND table_name IN (?..?)"
              ELSE "SELECT table_name, table_schema FROM information_schema.tables WHERE table_type = 'BASE TABLE' AND table_schema = DATABASE()"
         [] OTHER ->
              IF Len(tablesList) > 0
              THEN "SELECT name FROM sqlite_master WHERE type='table' AND name NOT LIKE 'sqlite_%' AND name IN (?..?)"
              ELSE "SELECT name FROM sqlite_master WHERE type='table' AND name NOT LIKE 'sqlite_%'",
       tablesList, 0)

\* The WHERE clause of Scan's table query, per dialect.
PostgresTableFilter(r, tablesList) ==
  /\ r.type = "BASE TABLE"
  /\ (Len(tablesList) > 0 => r.name \in Range(tablesList))

MySQLTableFilter(r, tablesList) ==
  /\ r.type = "BASE TABLE"
  /\ r.schema = CurrentDatabase
  /\ (Len(tablesList) > 0 => r.name \in Range(tablesList))

SQLiteTableFilter(r, tablesList) ==
  /\ r.type = "table"
  /\ ~Like(SqlitePattern, r.name)
  /\ (Len(tablesList) > 0 => r.name \in Range(tablesList))

TableRows(b, tablesList) ==
  SelectSeq(b.tables,
    LAMBDA r : CASE b.dialect = "postgres" -> PostgresTableFilter(r, tablesList)
                 [] b.dialect = "mysql" -> MySQLTableFilter(r, tablesList)
                 [] OTHER -> SQLiteTableFilter(r, tablesList))

ColumnsSQL(d, tableName, tableSchema) ==
  IF d = "sqlite"
  THEN Stmt("PRAGMA table_info('%s')", <<tableName>>, 0)
  ELSE Stmt("SELECT column_name, data_type, is_nullable FROM information_schema.columns WHERE table_name = ? AND table_schema = ? ORDER BY ordinal_position",
            <<tableName, tableSchema>>, 0)

\* The column rows the backend reports: is_nullable as YES/NO in
\* information_schema.columns, notnull as 0/1 in PRAGMA table_info.
ColumnRows(b, tableName, tableSchema) ==
  LET found == SelectSeq(b.tables,
                 LAMBDA r : r.name = tableName
                            /\ (b.dialect # "sqlite" => r.schema = tableSchema)
                            /\ (b.dialect = "sqlite" => r.type \in {"table", "view"}))
  IN  IF found = <<>> THEN <<>>
      ELSE [i \in 1..Len(found[1].cols) |->
              [name |-> found[1].cols[i].name,
               type |-> found[1].cols[i].type,
               is_nullable |-> IF found[1].cols[i].notnull THEN "NO" ELSE "YES",
               notnull |-> IF found[1].cols[i].notnull THEN 1 ELSE 0]]

Column(name, type, nullable) == [name |-> name, type |-> type, nullable |-> nullable]

\* types.Column of each reported row, in cursor order.
loadColumns(b, tableName, tableSchema) ==
  LET rows == ColumnRows(b, tableName, tableSchema)
  IN  [i \in 1..Len(rows) |->
         Column(rows[i].name, rows[i].type,
                IF b.dialect = "sqlite" THEN rows[i].notnull = 0
                ELSE rows[i].is_nullable = "YES")]

\* Table.Name: schema-qualified and quoted for Postgres, bare otherwise.
TableName(d, r) ==
  IF d = "postgres"
  THEN QuoteIdent(r.schema) \o <<".">> \o QuoteIdent(r.name)
  ELSE r.name

ScanResult(trace, err, tables) == [trace |-> trace, err |-> err, tables |-> tables]

Scan(b, tablesList, fault) ==
  IF fault.step = "begin"
  THEN ScanResult(<<>>, "failed to begin transaction", <<>>)
  ELSE LET d == b.dialect
           q == <<BeginEv(1), StmtEv(1, TablesSQL(d, tablesList))>>
           rows == TableRows(b, tablesList)
           n == Len(rows)
           \* the first row whose loadColumns fails, n + 1 when none does
           k == IF fault.step = "columns" /\ fault.at \in 1..n THEN fault.at ELSE n + 1
           cols(i) == ColumnsSQL(d, rows[i].name, rows[i].schema)
           loads == Flatten([i \in 1..Min(k, n) |->
                               IF i = k THEN <<StmtEv(1, cols(i))>>
                               ELSE Cursor(1, cols(i))])
           read == q \o <<OpenEv(1, TablesSQL(d, tablesList))>> \o loads
                     \o <<CloseEv(1, TablesSQL(d, tablesList)), CommitEv(1)>>
       IN  IF fault.step = "tables"
           THEN ScanResult(q \o <<CommitEv(1)>>, "failed to query tables", <<>>)
           ELSE IF k <= n
           THEN ScanResult(read, "failed to load columns", <<>>)
           ELSE ScanResult(read, "",
                  [i \in 1..n |->
                     [name |-> TableName(d, rows[i]),
                      columns |-> loadColumns(b, rows[i].name, rows[i].schema)]])


-----------------------------------------------------------------------------
(* DescribeTable *)

\* strings.Split with a one-character separator.
RECURSIVE Split(_, _)
Split(s, sep) ==
  IF \A i \in 1..Len(s) : s[i] # sep THEN <<s>>
  ELSE LET i == CHOOSE i \in 1..Len(s) : s[i] = sep /\ \A j \in 1..(i - 1) : s[j] # sep
       IN  <<SubSeq(s, 1, i - 1)>> \o Split(SubSeq(s, i + 1, Len(s)), sep)

RECURSIVE TrimLeft(_, _)
TrimLeft(s, c) == IF s # <<>> /\ Head(s) = c THEN TrimLeft(Tail(s), c) ELSE s

RECURSIVE TrimRight(_, _)
TrimRight(s, c) ==
  IF s # <<>> /\ s[Len(s)] = c THEN TrimRight(SubSeq(s, 1, Len(s) - 1), c) ELSE s

\* strings.Trim with a one-character cutset.
Trim(s, c) == TrimRight(TrimLeft(s, c), c)

\* The schema and table name DescribeTable looks up.  Postgres splits the
\* argument at dots; MySQL uses DATABASE(); SQLite has no schema.
ParseTable(d, table) ==
  CASE d = "postgres" ->
         LET parts == Split(table, ".")
         IN  IF Len(parts) = 2
             THEN [schema |-> Trim(parts[1], "\""), name |-> Trim(parts[2], "\"")]
             ELSE [schema |-> Public, name |-> Trim(table, "\"")]
    [] d = "mysql" -> [schema |-> CurrentDatabase, name |-> table]
    [] OTHER -> [schema |-> <<>>, name |-> table]

ExistsSQL(d, p) ==
  CASE d = "postgres" ->
         Stmt("SELECT EXISTS (SELECT 1 FROM information_schema.tables WHERE table_schema = $1 AND table_name = $2)",
              <<p.schema, p.name>>, 0)
    [] d = "mysql" ->
         Stmt("SELECT EXISTS (SELECT 1 FROM information_schema.tables WHERE table_schema = DATABASE() AND table_name = ?)",
              <<p.name>>, 0)
    [] OTHER ->
         Stmt("SELECT EXISTS (SELECT 1 FROM sqlite_master WHERE type='table' AND name = ?)",
              <<p.name>>, 0)

\* The catalog rows the existence query finds.
ExistsRows(b, p) ==
  SelectSeq(b.tables,
    LAMBDA r : r.name = p.name
               /\ (b.dialect = "sqlite" => r.type = "table")
               /\ (b.dialect # "sqlite" => r.schema = p.schema))

CountSQL(d, table, p) ==
  CASE d = "postgres" -> Stmt("SELECT COUNT(*) FROM \"%s\".\"%s\"", <<p.schema, p.name>>, 0)
    [] d = "mysql" -> Stmt("SELECT COUNT(*) FROM BQ%sBQ", <<table>>, 0)
    [] OTHER -> Stmt("SELECT COUNT(*) FROM %s", <<table>>, 0)

\* The catalog rows the row-count statement addresses.
CountRows(b, table, p) ==
  CASE b.dialect = "postgres" ->
         IF "\"" \in Range(p.schema) \cup Range(p.name) THEN <<>>
         ELSE SelectSeq(b.tables, LAMBDA r : r.schema = p.schema /\ r.name = p.name)
    [] b.dialect = "mysql" -> Resolve(b, Stmt(SelectBacktick, <<table>>, 0))
    [] OTHER -> Resolve(b, Stmt(SelectPlain, <<table>>, 0))

DatabaseSQL == Stmt("SELECT DATABASE()", <<>>, 0)

PrimaryKeysSQL(d, table, p) ==
  CASE d = "postgres" ->
         Stmt("SELECT a.attname FROM pg_index i ... WHERE i.indisprimary AND n.nspname = $1 AND c.relname = $2 ORDER BY array_position(i.indkey, a.attnum)",
              <<p.schema, p.name>>, 0)
    [] d = "mysql" ->
         Stmt("SELECT column_name FROM information_schema.key_column_usage WHERE table_schema = DATABASE() AND table_name = ? AND constraint_name = 'PRIMARY' ORDER BY ordinal_position",
              <<table>>, 0)
    [] OTHER ->
         Stmt("SELECT name FROM pragma_table_info(?) WHERE pk > 0 ORDER BY pk", <<table>>, 0)

IndexesSQL(d, table, p) ==
  CASE d = "postgres" ->
         Stmt("SELECT i.relname, array_agg(a.attname ORDER BY array_position(idx.indkey, a.attnum)), idx.indisunique FROM pg_index idx ... WHERE n.nspname = $1 AND c.relname = $2 AND NOT idx.indisprimary GROUP BY i.relname, idx.indisunique",
              <<p.schema, p.name>>, 0)
    [] d = "mysql" ->
         Stmt("SELECT index_name, GROUP_CONCAT(column_name ORDER BY seq_in_index), NOT non_unique FROM information_schema.statistics WHERE table_schema = DATABASE() AND table_name = ? AND index_name != 'PRIMARY' GROUP BY index_name, non_unique",
              <<table>>, 0)
    [] OTHER ->
         Stmt("SELECT name, \"unique\" FROM pragma_index_list(?) WHERE origin != 'pk'", <<table>>, 0)

IndexInfoSQL(indexName) ==
  Stmt("SELECT name FROM pragma_index_info(?) ORDER BY seqno", <<indexName>>, 0)

\* The rows of the index query: the indexes that are not the primary key's.
AllIndexRows(t) == t.indexes

IndexRows(t) == SelectSeq(t.indexes, LAMBDA x : x.origin # "pk")

Index(name, columns, unique) == [name |-> name, columns |-> columns, unique |-> unique]

\* The number of rows DescribeTable samples.
DescribeSampleLimit == 5

Description(table, columns, rowCount, sampleData, primaryKeys, indexes) ==
  [name |-> table, columns |-> columns, row_count |-> rowCount,
   sample_data |-> sampleData, primary_keys |-> primaryKeys, indexes |-> indexes]

DescribeResult(trace, err, desc) == [trace |-> trace, err |-> err, desc |-> desc]

\* if !exists { return nil, "table %s not found" }
NeverNotFound(exists) == FALSE

NotFound(exists) == ~exists

\* columns, err := c.loadColumns(ctx, tx, tableName, tableSchema): the columns
\* of the parsed table, by the loader Scan uses.
DescribeColumnsDefaultSchema(b, p) ==
  loadColumns(b, p.name, IF b.dialect = "postgres" THEN Public ELSE p.schema)

DescribeColumns(b, p) == loadColumns(b, p.name, p.schema)

\* sampleData, err := c.Sample(ctx, table, 5); if err != nil { sampleData = nil }:
\* the branch taken on a sample error has no return.
SampleErrorReturns(sm) == sm.err # ""

SampleErrorIsFatal(sm) == FALSE

\* The fault handed to the Sample call made inside DescribeTable.
SampleFault(fault) ==
  CASE fault.step = "sample_begin" -> Fault("begin", 0)
    [] fault.step = "sample_query" -> Fault("query", 0)
    [] fault.step = "sample_rowscan" -> Fault("rowscan", 0)
    [] OTHER -> NoFault

\* The index loop.  Postgres and MySQL read name, columns and uniqueness of
\* each row and fail the call when a row cannot be decoded; SQLite asks
\* pragma_index_info for the columns of each index, skips the index when
\* that query fails, skips a column that cannot be decoded, and keeps the
\* index only with at least one column.
IndexLoop(d, rows, fault) ==
  LET n == Len(rows)
      bad == IF fault.step \in {"indexscan", "index_info", "indexcolscan"}
                /\ fault.at \in 1..n THEN fault.at ELSE n + 1
      stop == IF fault.step = "indexscan" THEN bad ELSE n + 1
      seen == Min(stop, n)
      \* the rows that were decoded: those before the one that failed
      decoded == IF stop <= n THEN stop - 1 ELSE n
      cols(j) == IF j = bad /\ fault.step = "index_info" THEN <<>>
                 ELSE IF j = bad /\ fault.step = "indexcolscan" /\ rows[j].cols # <<>>
                 THEN Tail(rows[j].cols)
                 ELSE rows[j].cols
      kept == SelectSeq([j \in 1..seen |-> j],
                LAMBDA j : d = "sqlite" => Len(cols(j)) > 0)
  IN  [err |-> stop <= n,
       events |-> IF d = "sqlite"
                  THEN Flatten([j \in 1..decoded |->
                                  IF j = bad /\ fault.step = "index_info"
                                  THEN <<StmtEv(1, IndexInfoSQL(rows[j].name))>>
                                  ELSE Cursor(1, IndexInfoSQL(rows[j].name))])
                  ELSE <<>>,
       indexes |-> IF stop <= n THEN <<>>
                   ELSE [i \in 1..Len(kept) |->
                           Index(rows[kept[i]].name,
                                 CASE d = "sqlite" -> cols(kept[i])
                                   [] d = "mysql" ->
                                        Split(Join(rows[kept[i]].cols, <<",">>), ",")
                                   [] OTHER -> rows[kept[i]].cols,
                                 rows[kept[i]].unique)]]


Renumber(trace, tx) == [i \in 1..Len(trace) |-> [trace[i] EXCEPT !.tx = tx]]

DescribeTable(b, table, fault) ==
  IF fault.step = "begin"
  THEN DescribeResult(<<>>, "failed to begin transaction", Nil)
  ELSE
  LET d == b.dialect
      p == ParseTable(d, table)
      end == <<CommitEv(1)>>
      e1 == <<BeginEv(1), StmtEv(1, ExistsSQL(d, p))>>
      e2 == IF d = "mysql" THEN e1 \o <<StmtEv(1, DatabaseSQL)>> ELSE e1
      e3f == e2 \o <<StmtEv(1, ColumnsSQL(d, p.name, p.schema))>>
      e3 == e2 \o Cursor(1, ColumnsSQL(d, p.name, p.schema))
      e4 == e3 \o <<StmtEv(1, CountSQL(d, table, p))>>
      counted == CountRows(b, table, p)
      t == counted[1]
      sm == Sample(b, table, DescribeSampleLimit, SampleFault(fault))
      e5 == e4 \o Renumber(sm.trace, 2)
      e6f == e5 \o <<StmtEv(1, PrimaryKeysSQL(d, table, p))>>
      e6 == e5 \o Cursor(1, PrimaryKeysSQL(d, table, p))
      e7f == e6 \o <<StmtEv(1, IndexesSQL(d, table, p))>>
      loop == IndexLoop(d, IndexRows(t), fault)
      e8 == e6 \o <<StmtEv(1, IndexesSQL(d, table, p)), OpenEv(1, IndexesSQL(d, table, p))>>
               \o loop.events \o <<CloseEv(1, IndexesSQL(d, table, p))>>
  IN  IF fault.step = "exists"
      THEN DescribeResult(e1 \o end, "failed to check table existence", Nil)
      ELSE IF NotFound(ExistsRows(b, p) # <<>>)
      THEN DescribeResult(e1 \o end, "table not found", Nil)
      ELSE IF d = "mysql" /\ fault.step = "dbname"
      THEN DescribeResult(e2 \o end, "failed to get database name", Nil)
      ELSE IF fault.step = "columns"
      THEN DescribeResult(e3f \o end, "failed to load columns", Nil)
      ELSE IF fault.step = "count" \/ counted = <<>>
      THEN DescribeResult(e4 \o end, "failed to get row count", Nil)
      ELSE IF SampleErrorIsFatal(sm)
      THEN DescribeResult(e5 \o end, "failed to sample table", Nil)
      ELSE IF fault.step = "pk"
      THEN DescribeResult(e6f \o end, "failed to get primary keys", Nil)
      ELSE IF fault.step = "pkscan" /\ t.pk # <<>>
      THEN DescribeResult(e6 \o end, "failed to scan primary key", Nil)
      ELSE IF fault.step = "indexes"
      THEN DescribeResult(e7f \o end, "failed to get indexes", Nil)
      ELSE IF loop.err
      THEN DescribeResult(e8 \o end, "failed to scan index", Nil)
      ELSE DescribeResult(e8 \o end, "",
             Description(table, DescribeColumns(b, p), t.nrows,
                         IF sm.err # "" THEN <<>> ELSE sm.rows,
                         t.pk, loop.indexes))


-----------------------------------------------------------------------------
(* Constructors, the factory and Close *)

NoConn == [kind |-> "none", open |-> FALSE]

Built(err, errTag, c, events) == [err |-> err, errTag |-> errTag, conn |-> c, events |-> events]

ConstructLeavesHandleOpen(b, kind, openOk, reachable) ==
  IF ~openOk
  THEN Built(IF kind = "sqlite" THEN "failed to open database"
             ELSE "failed to parse connection string", "", NoConn, <<>>)
  ELSE IF ~(reachable /\ b.dialect = kind)
  THEN Built("failed to ping database", "", NoConn, <<"open", "ping">>)
  ELSE Built("", "", [kind |-> kind, open |-> TRUE], <<"open", "ping">>)

\* NewPostgresConnector, NewMySQLConnector, NewSQLiteConnector: parse or
\* open, ping once, close the handle when the ping fails.
Construct(b, kind, openOk, reachable) ==
  IF ~openOk
  THEN Built(IF kind = "sqlite" THEN "failed to open database"
             ELSE "failed to parse connection string", "", NoConn, <<>>)
  ELSE IF ~(reachable /\ b.dialect = kind)
  THEN Built("failed to ping database", "", NoConn, <<"open", "ping", "close">>)
  ELSE Built("", "", [kind |-> kind, open |-> TRUE], <<"open", "ping">>)

NewConnectorDefaultSQLite(b, dbType, openOk, reachable) ==
  IF dbType \in {"postgres", "postgresql"}
  THEN Construct(b, "postgres", openOk, reachable)
  ELSE Construct(b, "sqlite", openOk, reachable)

\* The factory: only the Postgres cases are compiled in; the mysql and
\* sqlite cases are commented out.
NewConnector(b, dbType, openOk, reachable) ==
  IF dbType \in {"postgres", "postgresql"}
  THEN Construct(b, "postgres", openOk, reachable)
  ELSE Built("unsupported database type: %s", dbType, NoConn, <<>>)

\* Close: c.db is never nil after construction, so Close is c.db.Close(),
\* which releases the handle of an open sql.DB and returns nil on a closed
\* one.
CloseOnceOnly(c) ==
  [conn |-> [c EXCEPT !.open = FALSE],
   released |-> IF c.open THEN 1 ELSE 0,
   err |-> IF c.open THEN "" ELSE "sql: database is closed"]

ConnectorClose(c) ==
  [conn |-> [c EXCEPT !.open = FALSE],
   released |-> IF c.open THEN 1 ELSE 0,
   err |-> ""]

\* DatabaseConfig: the type tag, the connection string and the file of
\* config.yaml ("" when the key is absent).
DatabaseConfig(dbType, connectionString, file) ==
  [DBType |-> dbType, ConnectionString |-> connectionString, File |-> file]

\* The zero DatabaseConfig: what an empty file yields; it also stands for
\* the configuration where none was loaded.
EmptyConfig == DatabaseConfig("", "", "")

DefaultFile == "database.db"

\* GetConnectionString: the connection string of a postgres or mysql
\* configuration, required; the file of a sqlite one, database.db when
\* unset; an error for any other type.
GetConnectionString(d) ==
  CASE d.DBType \in {"postgres", "mysql"} ->
         IF d.ConnectionString = ""
         THEN [str |-> "", err |-> "Connection string is required for %s connection"]
         ELSE [str |-> d.ConnectionString, err |-> ""]
    [] d.DBType = "sqlite" ->
         [str |-> IF d.File = "" THEN DefaultFile ELSE d.File, err |-> ""]
    [] OTHER -> [str |-> "", err |-> "unsupported Database type: %s"]

Started(panicked, called, connStr, logged, res) ==
  [panicked |-> panicked, called |-> called, connStr |-> connStr,
   logged |-> logged, res |-> res]

\* main: LoadConfig, GetConnectionString and NewConnector in turn.  An error
\* of the first two is logged and main goes on: with no configuration (cfg
\* is nil) cfg.Database is a nil dereference and the process panics; with
\* no connection string the factory is called with the empty string.  Only
\* an error of the factory makes main return.
main(b, loaded, d, openOk, reachable) ==
  IF ~loaded
  THEN Started(TRUE, FALSE, "", <<"config error">>, Built("", "", NoConn, <<>>))
  ELSE LET cs == GetConnectionString(d)
           r == NewConnector(b, d.DBType, openOk, reachable)
       IN  Started(FALSE, TRUE, cs.str,
                   (IF cs.err # "" THEN <<"connection string error">> ELSE <<>>)
                   \o (IF r.err # "" THEN <<"failed to create connector">> ELSE <<>>),
                   r)

\* The handles a construction leaves open.
OpenedBy(events) ==
  Cardinality({i \in 1..Len(events) : events[i] = "open"})
  - Cardinality({i \in 1..Len(events) : events[i] = "close"})

-----------------------------------------------------------------------------
(* The MCP tool handlers *)

ToolResultText(text) == [isError |-> FALSE, text |-> text]

ErrorResult(text) == [isError |-> TRUE, text |-> text]

TextResult == [isError |-> FALSE, text |-> "json"]

\* What a handler returns for the value a connector call returned: the
\* error result named after the tool when the call failed or when
\* json.MarshalIndent fails on the value, the JSON text otherwise.
Reply(err, failed, fault) ==
  IF err # "" THEN ErrorResult(failed)
  ELSE IF fault.step = "marshal" THEN ErrorResult("Failed to marshal results")
  ELSE TextResult

\* An argument of a tool request: absent, a string, a number or an array.
Absent == [kind |-> "absent", str |-> <<>>, num |-> 0, arr |-> <<>>]

StrArg(x) == [kind |-> "string", str |-> x, num |-> 0, arr |-> <<>>]

NumArg(n) == [kind |-> "number", str |-> <<>>, num |-> n, arr |-> <<>>]

ArrArg(a) == [kind |-> "array", str |-> <<>>, num |-> 0, arr |-> a]

\* The strings of a []interface{}: items that are not strings are dropped.
StringItems(arr) ==
  LET keep == SelectSeq(arr, LAMBDA x : x.kind = "string")
  IN  [i \in 1..Len(keep) |-> keep[i].str]

\* ScanHandler: tablesList is filled only from a tables argument that is an
\* array.
ScanHandlerTablesList(tables) ==
  IF tables.kind = "array" THEN StringItems(tables.arr) ELSE <<>>

ScanHandler(b, tables, fault) ==
  LET tablesList == ScanHandlerTablesList(tables)
      r == Scan(b, tablesList, fault)
  IN  [tablesList |-> tablesList, res |-> r, herr |-> Nil,
       reply |-> Reply(r.err, "Scan failed", fault)]

\* SampleHandler: the limit handed to Sample.
SampleHandlerLimit(limit) == DefaultLimit

SampleHandler(b, table, limit, fault) ==
  IF table.kind # "string"
  THEN [called |-> FALSE, limit |-> 0, res |-> QueryResult(<<>>, "", <<>>, FALSE),
        herr |-> Nil, reply |-> ErrorResult("Missing table parameter")]
  ELSE LET l == SampleHandlerLimit(limit)
           r == Sample(b, table.str, l, fault)
       IN  [called |-> TRUE, limit |-> l, res |-> r, herr |-> Nil,
            reply |-> Reply(r.err, "Sample failed", fault)]

\* The query argument of a query_database request, with the SQL text it holds.
QueryArg(sql) == [kind |-> "string", sql |-> sql]

AbsentQuery == [kind |-> "absent", sql |-> NoStmt]

QueryHandler(b, query, fault) ==
  IF query.kind # "string"
  THEN [called |-> FALSE, res |-> QueryResult(<<>>, "", <<>>, FALSE),
        herr |-> Nil, reply |-> ErrorResult("Missing query parameter")]
  ELSE LET r == Query(b, query.sql, fault)
       IN  [called |-> TRUE, res |-> r, herr |-> Nil,
            reply |-> Reply(r.err, "Query failed", fault)]


-----------------------------------------------------------------------------
(* Inputs *)

\* Largest loop iteration at which a fault is injected.
MaxFaultAt == 2

Tags == {"postgres", "postgresql", "mysql", "sqlite", "oracle", ""}

Dsn == "postgres://app@db/app"

\* The configurations main may load: every tag, for a server dialect with
\* and without a connection string, for sqlite with and without a file, and
\* the empty file.
Configs ==
  {DatabaseConfig(t, c, "") : t \in Tags \ {"sqlite", ""}, c \in {"", Dsn}}
  \cup {DatabaseConfig("sqlite", "", f) : f \in {"", "my.db"}}
  \cup {EmptyConfig}

\* The record of a run in which main did not take part.
NotStarted == Started(FALSE, FALSE, "", <<>>, Built("", "", NoConn, <<>>))

\* Table arguments: every catalog row by its bare name and by the name Scan
\* reports, and a table that does not exist.
TableArgs(b) ==
  {b.tables[i].name : i \in 1..Len(b.tables)}
  \cup {TableName(b.dialect, b.tables[i]) : i \in 1..Len(b.tables)}
  \cup {Ghost}

Filters ==
  {<<>>, <<Users>>, <<Ghost>>, <<Users, Ghost>>, <<Orders, Users>>, <<Users, Users>>,
   <<SqliteData>>, <<SqliteSequence>>, <<PgClass>>}

\* The names Scan reports, and a table that does not exist.
ScanNames(b) == {TableName(b.dialect, b.tables[i]) : i \in 1..Len(b.tables)} \cup {Ghost}

\* The spellings of the users tables: faults are injected into calls on these.
UsersArgs(b) ==
  {Users} \cup {TableName(b.dialect, b.tables[i]) :
                  i \in {j \in 1..Len(b.tables) : b.tables[j].name = Users}}

Limits == {-MaxLimit, -1, 0, 1, FewRows, DefaultLimit, MaxLimit}

HandlerLimits == {Absent} \cup {NumArg(l) : l \in {-1, 0, FewRows, MaxLimit}}

UsersCommaOrders == Users \o <<",">> \o Orders

TablesArgs ==
  {Absent, NumArg(1), StrArg(<<>>), StrArg(Users), StrArg(UsersCommaOrders),
   ArrArg(<<>>), ArrArg(<<StrArg(Users)>>), ArrArg(<<StrArg(Users), StrArg(Orders)>>),
   ArrArg(<<StrArg(Ghost), NumArg(1), StrArg(Users)>>)}

UserSQL ==
  {Stmt(k, <<t>>, IF k = SelectPlain THEN FewRows ELSE 0) :
     k \in {SelectPlain, InsertInto, DropTable}, t \in {Users, Ghost}}

QueryFaults ==
  {NoFault, Fault("begin", 0), Fault("query", 0), Fault("rowscan", 0)}
  \cup {Fault("next", i) : i \in 1..MaxFaultAt}

ScanFaults ==
  {NoFault, Fault("begin", 0), Fault("tables", 0)}
  \cup {Fault("columns", i) : i \in 1..MaxFaultAt}

DescribeFaults ==
  {Fault(x, 0) : x \in {"none", "begin", "exists", "dbname", "columns", "count",
                        "sample_begin", "sample_query", "sample_rowscan",
                        "pk", "pkscan", "indexes"}}
  \cup {Fault(x, i) : x \in {"indexscan", "index_info", "indexcolscan"}, i \in 1..MaxFaultAt}

-----------------------------------------------------------------------------
(* The state machine *)

NoCall == [op |-> "none"]

\* The connection pool of the handle (sql.DB): the limit on open
\* connections, 0 for none, and the connections in use.  The constructors
\* set no limit.
Pool(maxOpen, inUse) == [maxOpen |-> maxOpen, inUse |-> inUse]

NoPool == Pool(0, 0)

Init ==
  /\ backend \in Backends
  /\ dbChanged = FALSE
  /\ conn = NoConn
  /\ handles = 0
  /\ factory = [via |-> "none"]
  /\ call = NoCall
  /\ pool = NoPool
  /\ calls = <<>>

Constructed(via, tag, openOk, reachable, r, loaded, d, m) ==
  /\ factory' = [via |-> via, tag |-> tag, openOk |-> openOk, reachable |-> reachable,
                 res |-> r, loaded |-> loaded, cfg |-> d, main |-> m]
  /\ conn' = r.conn
  /\ handles' = handles + OpenedBy(r.events)
  /\ UNCHANGED <<backend, dbChanged, call, pool, calls>>

\* main, at startup, with the configuration file it finds (or does not
\* find); it calls the factory at most once.
Startup ==
  /\ factory.via = "none"
  /\ \E loaded \in BOOLEAN, d \in Configs, openOk \in BOOLEAN, reachable \in BOOLEAN :
       /\ ~loaded => d = EmptyConfig /\ openOk /\ reachable
       /\ LET m == main(backend, loaded, d, openOk, reachable)
          IN  Constructed(IF m.called THEN "NewConnector" ELSE "main", d.DBType,
                          openOk, reachable, m.res, loaded, d, m)

\* A dialect constructor called directly.  (The calls below are made on an
\* open connector: the server never closes the connector it serves from.)
NewDialectConnector ==
  /\ factory.via = "none"
  /\ \E kind \in Dialects, openOk \in BOOLEAN, reachable \in BOOLEAN :
       Constructed("constructor", kind, openOk, reachable,
                   Construct(backend, kind, openOk, reachable),
                   FALSE, EmptyConfig, NotStarted)

Called(c, wrote) ==
  /\ call' = c
  /\ dbChanged' = (dbChanged \/ wrote)
  /\ UNCHANGED <<backend, conn, handles, factory, pool, calls>>

ScanCall ==
  /\ conn.open
  /\ \E tablesList \in Filters, fault \in ScanFaults :
       Called([op |-> "Scan", tablesList |-> tablesList, fault |-> fault,
               res |-> Scan(backend, tablesList, fault)], FALSE)

QueryCall ==
  /\ conn.open
  /\ \E sql \in UserSQL, fault \in QueryFaults :
       LET r == Query(backend, sql, fault)
       IN  Called([op |-> "Query", sql |-> sql, fault |-> fault, res |-> r],
                  r.wrote)

SampleCall ==
  /\ conn.open
  /\ \E table \in ScanNames(backend), limit \in Limits, fault \in QueryFaults :
       /\ fault # NoFault => limit = DefaultLimit
       /\ Called([op |-> "Sample", table |-> table, limit |-> limit,
               fault |-> fault,
               res |-> Sample(backend, table, limit, fault)], FALSE)

DescribeTableCall ==
  /\ conn.open
  /\ \E table \in TableArgs(backend), fault \in DescribeFaults :
       /\ fault # NoFault => table \in UsersArgs(backend) \cup {Ghost}
       /\ Called([op |-> "DescribeTable", table |-> table, fault |-> fault,
               res |-> DescribeTable(backend, table, fault)], FALSE)

ScanDatabase ==
  /\ conn.open
  /\ \E tables \in TablesArgs, fault \in {NoFault, Fault("tables", 0), Fault("marshal", 0)} :
       Called([op |-> "scan_database", tables |-> tables, fault |-> fault,
               out |-> ScanHandler(backend, tables, fault)], FALSE)

SampleTable ==
  /\ conn.open
  /\ \E table \in {Absent, NumArg(1)} \cup {StrArg(t) : t \in ScanNames(backend)},
        limit \in HandlerLimits,
        fault \in {NoFault, Fault("query", 0), Fault("marshal", 0)} :
       /\ fault # NoFault => limit = Absent
       /\ Called([op |-> "sample_table", table |-> table, limitArg |-> limit,
               fault |-> fault,
               out |-> SampleHandler(backend, table, limit, fault)], FALSE)

QueryDatabase ==
  /\ conn.open
  /\ \E query \in {AbsentQuery} \cup {QueryArg(s) : s \in UserSQL},
        fault \in {NoFault, Fault("query", 0), Fault("marshal", 0)} :
       LET out == QueryHandler(backend, query, fault)
       IN  Called([op |-> "query_database", query |-> query, fault |-> fault,
                   out |-> out], out.res.wrote)

\* Close, on an open or on an already closed connector.
Close ==
  /\ conn.kind # "none"
  /\ conn' = ConnectorClose(conn).conn
  /\ handles' = handles - ConnectorClose(conn).released
  /\ call' = [op |-> "Close", err |-> ConnectorClose(conn).err,
              wasOpen |-> conn.open, handlesBefore |-> handles]
  /\ UNCHANGED <<backend, dbChanged, factory, pool, calls>>

Next ==
  \/ Startup
  \/ NewDialectConnector
  \/ ScanCall
  \/ QueryCall
  \/ SampleCall
  \/ DescribeTableCall
  \/ ScanDatabase
  \/ SampleTable
  \/ QueryDatabase
  \/ Close

Spec == Init /\ [][Next]_vars

-----------------------------------------------------------------------------
(* Concurrent calls on the shared connector.  Each call runs the begins    *)
(* and commits of its trace in order; BeginTxx takes a connection of the   *)
(* handle's pool and waits while none is free, Commit gives it back.       *)

\* Largest number of concurrent calls.
MaxCalls == 2

\* Largest limit on open connections set on a handle.
MaxConns == 2

CallIds == 1..MaxCalls

Ops == {"Scan", "Query", "Sample", "DescribeTable"}

\* The trace of a call of the operation on the users table, when the
\* backend answers every statement.
OpTrace(b, op) ==
  CASE op = "Scan" -> Scan(b, <<>>, NoFault).trace
    [] op = "Query" -> Query(b, Stmt(SelectPlain, <<Users>>, FewRows), NoFault).trace
    [] op = "Sample" -> Sample(b, Users, DefaultLimit, NoFault).trace
    [] OTHER -> DescribeTable(b, Users, NoFault).trace

\* The events of a trace that take or give back a connection, in order.
PoolEvents(trace) ==
  LET evs == SelectSeq(trace, LAMBDA e : e.ev \in {"begin", "commit"})
  IN  [k \in 1..Len(evs) |-> evs[k].ev]

\* database/sql hands out a connection when no limit is set or fewer than
\* the limit are in use; otherwise the request waits for one to be given
\* back (or for ctx, which is never cancelled here).
Free(p) == p.maxOpen = 0 \/ p.inUse < p.maxOpen

getConn(p) == [p EXCEPT !.inUse = @ + 1]

LeakConn(p) == p

\* tx.Commit() gives the transaction's connection back to the pool.
putConn(p) == [p EXCEPT !.inUse = @ - 1]

\* A call: its operation, whether it was made and has returned, the pool
\* events it has to run and how many of them it has run.
CallState(op, status, pc, events) ==
  [op |-> op, status |-> status, pc |-> pc, events |-> events]

\* The pool event call i is about to run; "return" when none is left.
NextEvent(i) ==
  IF calls[i].pc < Len(calls[i].events) THEN calls[i].events[calls[i].pc + 1]
  ELSE "return"

Advance(i) == calls' = [calls EXCEPT ![i].pc = @ + 1]

\* One backend of each dialect: the pool events of a call do not depend on
\* the catalog.
LiveBackends == {CHOOSE b \in Backends : b.dialect = d : d \in Dialects}

LiveInit ==
  /\ backend \in LiveBackends
  /\ dbChanged = FALSE
  /\ factory = [via |-> "constructor", tag |-> backend.dialect, openOk |-> TRUE,
                reachable |-> TRUE,
                res |-> Construct(backend, backend.dialect, TRUE, TRUE),
                loaded |-> FALSE, cfg |-> EmptyConfig, main |-> NotStarted]
  /\ conn = factory.res.conn
  /\ handles = 1
  /\ call = NoCall
  /\ pool \in {Pool(c, 0) : c \in 0..MaxConns}
  /\ calls \in [CallIds ->
                  {CallState(op, "idle", 0, PoolEvents(OpTrace(backend, op))) : op \in Ops}]

\* The transport delivers call i to its handler.
CallArrives(i) ==
  /\ calls[i].status = "idle"
  /\ calls' = [calls EXCEPT ![i].status = "running"]
  /\ UNCHANGED <<backend, dbChanged, conn, handles, factory, call, pool>>

\* c.db.BeginTxx
CallBegins(i) ==
  /\ calls[i].status = "running"
  /\ NextEvent(i) = "begin"
  /\ Free(pool)
  /\ pool' = getConn(pool)
  /\ Advance(i)
  /\ UNCHANGED <<backend, dbChanged, conn, handles, factory, call>>

\* the statements of the transaction, then the deferred tx.Commit()
CallCommits(i) ==
  /\ calls[i].status = "running"
  /\ NextEvent(i) = "commit"
  /\ pool' = putConn(pool)
  /\ Advance(i)
  /\ UNCHANGED <<backend, dbChanged, conn, handles, factory, call>>

CallReturns(i) ==
  /\ calls[i].status = "running"
  /\ NextEvent(i) = "return"
  /\ calls' = [calls EXCEPT ![i].status = "returned"]
  /\ UNCHANGED <<backend, dbChanged, conn, handles, factory, call, pool>>

\* A step of call i once it was made.
CallStep(i) == CallBegins(i) \/ CallCommits(i) \/ CallReturns(i)

LiveNext ==
  \E i \in CallIds :
    \/ CallArrives(i)
    \/ CallBegins(i)
    \/ CallCommits(i)
    \/ CallReturns(i)

\* Every call that was made keeps running while it can: the backend answers
\* each statement, the scheduler runs each goroutine.
LiveSpec ==
  LiveInit /\ [][LiveNext]_vars /\ \A i \in CallIds : WF_vars(CallStep(i))


-----------------------------------------------------------------------------
(* Properties *)

\* The trace and the Go error of the last connector call, made directly or
\* by a handler.
CallTrace ==
  CASE call.op \in {"Scan", "Query", "Sample", "DescribeTable"} -> call.res.trace
    [] call.op \in {"scan_database", "sample_table", "query_database"} -> call.out.res.trace
    [] OTHER -> <<>>

StmtCount(trace) == Cardinality({i \in 1..Len(trace) : trace[i].ev = "stmt"})

\* Statement i of the trace is sent on a transaction that was begun read-only
\* and has not ended.
OnReadOnlyTx(trace, i) ==
  /\ trace[i].tx # 0
  /\ \E j \in 1..(i - 1) :
       /\ trace[j].ev = "begin"
       /\ trace[j].tx = trace[i].tx
       /\ trace[j].readOnly
       /\ \A k \in (j + 1)..(i - 1) :
            ~(trace[k].ev = "commit" /\ trace[k].tx = trace[i].tx)

\* C1: every statement that scan, query, sample or describeTable sends, in
\* every dialect, is sent on a transaction begun with the read-only option;
\* none is sent on the bare handle or on a read-write transaction.
C1_StatementsOnReadOnlyTx ==
  \A i \in 1..Len(CallTrace) :
    CallTrace[i].ev = "stmt" => OnReadOnlyTx(CallTrace, i)

\* A describeTable that succeeded: statements on its own transaction and the
\* sample's statement on a second one.
C1_Witness ==
  /\ call.op = "DescribeTable"
  /\ call.res.err = ""
  /\ \E i \in 1..Len(call.res.trace) :
       call.res.trace[i].ev = "stmt" /\ call.res.trace[i].tx = 2
  /\ StmtCount(call.res.trace) >= 6

\* C2: query_database rejects every request whose SQL is not a SELECT with an
\* error result, and such a request never changes the database.
C2_OnlySelectAllowed ==
  (call.op = "query_database" /\ call.query.kind = "string" /\ ~IsSelect(call.query.sql))
    => (call.out.reply.isError /\ ~call.out.res.wrote /\ ~dbChanged)

RecognizedTags == {"postgres", "postgresql", "mysql", "sqlite"}

DialectOfTag(tag) == IF tag = "postgresql" THEN "postgres" ELSE tag

\* C3: the factory maps each recognized tag to the matching constructor:
\* what it returns is what that dialect's constructor returns.
C3_FactoryMapsRecognizedTags ==
  (factory.via = "NewConnector" /\ factory.tag \in RecognizedTags)
    => factory.res = Construct(backend, DialectOfTag(factory.tag),
                               factory.openOk, factory.reachable)

\* C4: for a tag outside the recognized set the factory returns an error
\* carrying the tag, no connector, and opens no backend handle.
C4_UnknownTagRejected ==
  (factory.via = "NewConnector" /\ factory.tag \notin RecognizedTags)
    => /\ factory.res.err # ""
       /\ factory.res.errTag = factory.tag
       /\ factory.res.conn = NoConn
       /\ conn = NoConn
       /\ factory.res.events = <<>>
       /\ handles = 0

C4_Witness ==
  /\ factory.via = "NewConnector"
  /\ factory.tag = "oracle"
  /\ factory.openOk
  /\ factory.reachable
  /\ backend.dialect = "sqlite"

\* A catalog row of the backend's own: a sqlite_ table, a table of
\* pg_catalog or information_schema, a table of another MySQL database.
SqlitePrefix == <<"s","q","l","i","t","e","_">>

SystemRow(d, r) ==
  CASE d = "postgres" -> r.schema \in {PgCatalog, InformationSchema}
    [] d = "mysql" -> r.schema # CurrentDatabase
    [] OTHER -> Len(r.name) >= Len(SqlitePrefix)
                /\ SubSeq(r.name, 1, Len(SqlitePrefix)) = SqlitePrefix

\* The catalog rows a reported name can stand for.
RowsNamed(b, name) ==
  {r \in Range(b.tables) : TableName(b.dialect, r) = name}

\* C5: scan with an empty filter returns no entry that is one of the
\* backend's internal or system tables.
C5_ScanAllHasNoSystemTables ==
  (call.op = "Scan" /\ call.tablesList = <<>> /\ call.res.err = "")
    => \A i \in 1..Len(call.res.tables) :
         \E r \in RowsNamed(backend, call.res.tables[i].name) :
           ~SystemRow(backend.dialect, r)

\* The base tables of the backend (of the current database for MySQL).
BaseTables(b) ==
  {r \in Range(b.tables) :
     /\ r.type \in {"BASE TABLE", "table"}
     /\ (b.dialect = "mysql" => r.schema = CurrentDatabase)}

\* The entries of a scan result that report a table named name.
EntriesFor(b, tables, name) ==
  {i \in 1..Len(tables) : \E r \in RowsNamed(b, tables[i].name) : r.name = name}

\* C6: scan with a non-empty filter F returns exactly one entry for each name
\* of F that exists, no other entry, and no error for names that do not exist.
C6_ScanFilterExact ==
  (call.op = "Scan" /\ call.tablesList # <<>> /\ call.fault = NoFault)
    => /\ call.res.err = ""
       /\ \A name \in Range(call.tablesList) :
            Cardinality(EntriesFor(backend, call.res.tables, name))
              = (IF \E r \in BaseTables(backend) : r.name = name THEN 1 ELSE 0)
       /\ \A i \in 1..Len(call.res.tables) :
            \E name \in Range(call.tablesList) :
              i \in EntriesFor(backend, call.res.tables, name)

\* C7: a sample_table request with a positive limit L calls Sample with L and
\* gets at most L rows; 10 is used only without a limit or with a limit <= 0.
C7_SampleTableHonoursLimit ==
  (call.op = "sample_table" /\ call.out.called)
    => /\ (call.limitArg.kind = "number" /\ call.limitArg.num > 0)
            => (call.out.limit = call.limitArg.num
                /\ Len(call.out.res.rows) <= call.limitArg.num)
       /\ (call.limitArg.kind = "absent" \/ call.limitArg.num <= 0)
            => call.out.limit = DefaultLimit

\* C8: Sample with a limit <= 0 issues the query and returns the result of
\* Sample with limit 10; with a limit L > 0 it requests at most L rows.
C8_SampleDefaultLimit ==
  call.op = "Sample"
    => /\ call.limit <= 0
            => call.res = Sample(backend, call.table, DefaultLimit, call.fault)
       /\ \A i \in 1..Len(call.res.trace) :
            call.res.trace[i].ev = "stmt"
              => call.res.trace[i].stmt.limit
                   = (IF call.limit <= 0 THEN DefaultLimit ELSE call.limit)
       /\ call.limit > 0 => Len(call.res.rows) <= call.limit

C8_Witness ==
  /\ call.op = "Sample"
  /\ call.limit = 0
  /\ call.res.err = ""
  /\ Len(call.res.rows) = DefaultLimit

\* C9: a scan_database request whose tables argument is a non-empty
\* comma-separated string calls Scan with exactly those names.
C9_ScanDatabaseSplitsTables ==
  (call.op = "scan_database" /\ call.tables.kind = "string" /\ call.tables.str # <<>>)
    => call.out.tablesList = Split(call.tables.str, ",")

\* No catalog row is addressed by the name, as a spelling in a statement or
\* as the name itself of a table that needs no schema.
NotInCatalog(b, table) ==
  \A r \in Range(b.tables) :
    /\ table \notin PlainSpellings(b.dialect, r)
    /\ PlainSpellings(b.dialect, r) \cap {r.name, QuoteIdent(r.name)} # {}
         => table # r.name

\* C10: describeTable on a name that is not in the catalog returns a
\* not-found error and a nil description, having sent only the existence
\* check: no row-count, sample, primary-key or index statement.
C10_DescribeMissingTable ==
  (call.op = "DescribeTable" /\ NotInCatalog(backend, call.table))
    => /\ call.res.desc = Nil
       /\ call.res.err # ""
       /\ call.fault = NoFault => call.res.err = "table not found"
       /\ \A i \in 1..Len(call.res.trace) :
            call.res.trace[i].ev = "stmt"
              => call.res.trace[i] =
                   StmtEv(1, ExistsSQL(backend.dialect,
                                       ParseTable(backend.dialect, call.table)))

C10_Witness ==
  /\ call.op = "DescribeTable"
  /\ call.table = Ghost
  /\ call.res.err = "table not found"
  /\ StmtCount(call.res.trace) = 1

\* The steps of the Sample call made inside DescribeTable.
SampleSteps == {"sample_begin", "sample_query", "sample_rowscan"}

\* C11: when the sample made inside describeTable fails for an existing
\* table, describeTable succeeds with no sample data and with the columns,
\* row count, primary keys and indexes of a call whose sample succeeds.
C11_SampleFailureNotFatal ==
  LET sm == Sample(backend, call.table, DescribeSampleLimit, SampleFault(call.fault))
      ok == DescribeTable(backend, call.table, NoFault)
  IN  (call.op = "DescribeTable" /\ call.fault.step \in SampleSteps
       /\ sm.err # "" /\ ok.err = "")
        => /\ call.res.err = ""
           /\ call.res.desc = [ok.desc EXCEPT !.sample_data = <<>>]

\* A describeTable whose sample query failed on a table that has rows, a
\* primary key and a secondary index.
C11_Witness ==
  /\ call.op = "DescribeTable"
  /\ call.fault = Fault("sample_query", 0)
  /\ call.res.err = ""
  /\ call.res.desc.sample_data = <<>>
  /\ call.res.desc.row_count > 0
  /\ call.res.desc.columns # <<>>
  /\ call.res.desc.primary_keys # <<>>
  /\ call.res.desc.indexes # <<>>

\* The positions of a trace at which a transaction is begun.
Begins(trace) == {i \in 1..Len(trace) : trace[i].ev = "begin"}

\* C12: a describeTable call begins exactly one transaction, read-only, and
\* every statement it sends (existence check, columns, row count, sample,
\* primary keys, indexes) runs on that transaction.
C12_DescribeSingleTx ==
  call.op = "DescribeTable"
    => /\ Cardinality(Begins(call.res.trace)) <= 1
       /\ \A i \in 1..Len(call.res.trace) :
            call.res.trace[i].ev = "stmt"
              => \E j \in Begins(call.res.trace) :
                   /\ j < i
                   /\ call.res.trace[j].readOnly
                   /\ call.res.trace[j].tx = call.res.trace[i].tx
                   /\ Begins(call.res.trace) = {j}

\* The step at which the column list of one index is looked up or decoded:
\* the scan of the index row (Postgres, MySQL), the pragma_index_info query
\* and the scan of its rows (SQLite).
IndexColumnSteps(d) ==
  IF d = "sqlite" THEN {"index_info", "indexcolscan"} ELSE {"indexscan"}

\* A sequence without its element at position k.
Without(s, k) == SubSeq(s, 1, k - 1) \o SubSeq(s, k + 1, Len(s))

\* C13: when the column list of one index cannot be resolved during
\* describeTable, the call succeeds and returns the other indexes, without
\* that index.
C13_UnresolvedIndexSkipped ==
  LET ok == DescribeTable(backend, call.table, NoFault)
  IN  (call.op = "DescribeTable"
       /\ call.fault.step \in IndexColumnSteps(backend.dialect)
       /\ ok.err = ""
       /\ call.fault.at \in 1..Len(ok.desc.indexes))
        => /\ call.res.err = ""
           /\ call.res.desc.indexes = Without(ok.desc.indexes, call.fault.at)

\* The names of the primary-key indexes of the backend's tables.
PrimaryKeyIndexNames(b) ==
  {x.name : x \in {y \in UNION {Range(r.indexes) : r \in Range(b.tables)} :
                     y.origin = "pk"}}

\* C14: every index describeTable returns is not the primary-key index and
\* has at least one column name.
C14_IndexesNonPrimaryNonEmpty ==
  (call.op = "DescribeTable" /\ call.res.err = "")
    => \A i \in 1..Len(call.res.desc.indexes) :
         LET x == call.res.desc.indexes[i]
         IN  /\ x.name \notin PrimaryKeyIndexNames(backend)
             /\ Len(x.columns) >= 1
             /\ \A k \in 1..Len(x.columns) : x.columns[k] # <<>>

\* A describeTable of a SQLite table that has a primary-key index, two
\* indexes with columns and one index without a resolvable column.
C14_Witness ==
  /\ call.op = "DescribeTable"
  /\ backend.dialect = "sqlite"
  /\ call.table = Users
  /\ call.fault = NoFault
  /\ call.res.err = ""
  /\ Len(call.res.desc.indexes) = 2

\* The entry of a scan result reports the table that the argument of a
\* describeTable call names.
SameTable(b, entry, table) ==
  \/ table = entry.name
  \/ \E r \in RowsNamed(b, entry.name) : table \in PlainSpellings(b.dialect, r)

\* C15: the columns in describeTable's result are the columns (names, types,
\* nullability, order) that scan reports for the same table of the same
\* backend.
C15_DescribeColumnsAreScanColumns ==
  LET sc == Scan(backend, <<>>, NoFault)
  IN  (call.op = "DescribeTable" /\ call.res.err = "")
        => \A i \in 1..Len(sc.tables) :
             SameTable(backend, sc.tables[i], call.table)
               => call.res.desc.columns = sc.tables[i].columns

\* A describeTable of audit.users by the name scan reports, in a backend
\* that also has a public.users with other columns.
C15_Witness ==
  /\ call.op = "DescribeTable"
  /\ call.res.err = ""
  /\ call.table = QuoteIdent(Audit) \o <<".">> \o QuoteIdent(Users)
  /\ Len(call.res.desc.columns) = Len(AuditCols)
  /\ \E i \in 1..Len(Scan(backend, <<>>, NoFault).tables) :
       /\ Scan(backend, <<>>, NoFault).tables[i].name = call.table
       /\ Scan(backend, <<>>, NoFault).tables[i].columns = call.res.desc.columns

\* C16: a first close releases the backend handle and returns success; close
\* on a connector that is already closed returns success and changes
\* nothing.
C16_CloseIdempotent ==
  call.op = "Close"
    => /\ call.err = ""
       /\ ~conn.open
       /\ handles = 0
       /\ call.wasOpen => handles = call.handlesBefore - 1
       /\ ~call.wasOpen => handles = call.handlesBefore

\* A close of a connector that was already closed.
C16_Witness ==
  /\ call.op = "Close"
  /\ ~call.wasOpen
  /\ conn.kind # "none"
  /\ call.err = ""

\* The dialect whose constructor the last construction ran ("none": the
\* factory refused the tag).
ConstructedKind ==
  CASE factory.via = "constructor" -> factory.tag
    [] factory.via = "NewConnector" /\ factory.tag \in {"postgres", "postgresql"} -> "postgres"
    [] OTHER -> "none"

Count(s, x) == Cardinality({i \in 1..Len(s) : s[i] = x})

\* C17: a dialect constructor pings the backend exactly once, right after
\* opening the handle; when the ping fails it returns an error and no
\* connector, having closed the handle it opened.
C17_ConstructorPingsOnce ==
  (ConstructedKind # "none" /\ factory.openOk)
    => /\ Len(factory.res.events) >= 2
       /\ factory.res.events[1] = "open"
       /\ factory.res.events[2] = "ping"
       /\ Count(factory.res.events, "ping") = 1
       /\ Count(factory.res.events, "open") = 1
       /\ ~(factory.reachable /\ backend.dialect = ConstructedKind)
            => /\ factory.res.err # ""
               /\ factory.res.conn = NoConn
               /\ factory.res.events = <<"open", "ping", "close">>
               /\ handles = 0
               /\ conn = NoConn
       /\ (factory.reachable /\ backend.dialect = ConstructedKind)
            => /\ factory.res.err = ""
               /\ factory.res.conn.kind = ConstructedKind
               /\ factory.res.events = <<"open", "ping">>

\* A SQLite constructor whose ping failed.
C17_Witness ==
  /\ factory.via = "constructor"
  /\ factory.tag = "sqlite"
  /\ factory.openOk
  /\ ~factory.reachable
  /\ backend.dialect = "sqlite"
  /\ factory.res.err = "failed to ping database"
  /\ handles = 0

HandlerOps == {"scan_database", "sample_table", "query_database"}

\* The request of the last handler call lacks its required argument.
MissingArgument ==
  \/ call.op = "sample_table" /\ call.table.kind # "string"
  \/ call.op = "query_database" /\ call.query.kind # "string"

\* The text of the error result of a tool whose connector call failed.
FailedText ==
  CASE call.op = "scan_database" -> "Scan failed"
    [] call.op = "sample_table" -> "Sample failed"
    [] OTHER -> "Query failed"

\* C18: a handler returns a nil handler error on every path; a failed
\* connector call and a missing required argument each become an error
\* result that carries a text.
C18_HandlerFailuresAreErrorResults ==
  call.op \in HandlerOps
    => /\ call.out.herr = Nil
       /\ call.out.reply.text # ""
       /\ MissingArgument
            => /\ call.out.reply.isError
               /\ call.out.res.trace = <<>>
               /\ call.out.reply.text \in {"Missing table parameter", "Missing query parameter"}
       /\ call.out.res.err # ""
            => /\ call.out.reply.isError
               /\ call.out.reply.text = FailedText
       /\ call.fault.step = "marshal"
            => call.out.reply.isError

\* A query_database request whose statement the backend refused.
C18_Witness ==
  /\ call.op = "query_database"
  /\ call.fault = NoFault
  /\ call.out.res.err = "unable to query db"
  /\ call.out.reply = ErrorResult("Query failed")
  /\ call.out.herr = Nil

\* The result of the last Query or Sample call had no failure been injected.
Unfailed ==
  IF call.op = "Query" THEN Query(backend, call.sql, NoFault)
  ELSE Sample(backend, call.table, call.limit, NoFault)

\* C19: when the backend fails or the context is cancelled after some rows
\* of a query or sample result were read and before the last one, the call
\* returns an error and no rows.
C19_NoTruncatedSuccess ==
  (call.op \in {"Query", "Sample"}
   /\ call.fault.step \in {"rowscan", "next"}
   /\ call.fault.at < Len(Unfailed.rows))
    => /\ call.res.err # ""
       /\ call.res.rows = <<>>

\* Event i of the trace, a begin or an open, is answered later in the trace:
\* a begin by the commit of its transaction, an open by the close of the
\* cursor of the same statement on the same transaction.
Ended(trace, i) ==
  \E j \in (i + 1)..Len(trace) :
    /\ trace[j].tx = trace[i].tx
    /\ \/ trace[i].ev = "begin" /\ trace[j].ev = "commit"
       \/ /\ trace[i].ev = "open"
          /\ trace[j].ev = "close"
          /\ trace[j].stmt = trace[i].stmt

\* C20: on every return path of scan, query, sample and describeTable,
\* every transaction the call began has been ended and every cursor it
\* opened has been closed when the call returns.
C20_NoTxOutlivesCall ==
  \A i \in 1..Len(CallTrace) :
    CallTrace[i].ev \in {"begin", "open"} => Ended(CallTrace, i)

\* A describeTable that returned early, on a primary-key row it could not
\* decode, with the primary-key cursor open and after the sample's own
\* transaction.
C20_Witness ==
  /\ call.op = "DescribeTable"
  /\ call.res.err = "failed to scan primary key"
  /\ Cardinality(Begins(call.res.trace)) = 2
  /\ \E i \in 1..Len(call.res.trace) :
       /\ call.res.trace[i].ev = "open"
       /\ call.res.trace[i].stmt =
            PrimaryKeysSQL(backend.dialect, call.table,
                           ParseTable(backend.dialect, call.table))
       /\ Ended(call.res.trace, i)
  /\ \A i \in Begins(call.res.trace) : Ended(call.res.trace, i)

\* The cursors of transaction tx that are open just before event i of the
\* trace: the opens before i that no close of the same statement on the same
\* transaction follows before i.
OpenCursors(trace, tx, i) ==
  {j \in 1..(i - 1) :
     /\ trace[j].ev = "open"
     /\ trace[j].tx = tx
     /\ \A k \in (j + 1)..(i - 1) :
          ~(trace[k].ev = "close" /\ trace[k].tx = tx
            /\ trace[k].stmt = trace[j].stmt)}

\* C24: scan and describeTable never send a statement on their transaction
\* while a cursor opened earlier on that same transaction is still open.
C24_OneCursorPerTx ==
  call.op \in {"Scan", "DescribeTable"}
    => \A i \in 1..Len(call.res.trace) :
         call.res.trace[i].ev = "stmt"
           => OpenCursors(call.res.trace, call.res.trace[i].tx, i) = {}

\* The first n rows of catalog row r, as a SELECT returns them.
RowsOf(r, n) == [j \in 1..Min(n, r.nrows) |-> Row(r, j)]

\* C23: for every entry scan returns, sample and describeTable called with
\* the entry's Name address the table scan listed: the call succeeds, and
\* the rows, row count and columns are those of that table.
C23_ScanNameAddressesTable ==
  LET sc == Scan(backend, <<>>, NoFault)
      listed == TableRows(backend, <<>>)
  IN  \A i \in 1..Len(sc.tables) :
        (call.op \in {"Sample", "DescribeTable"}
         /\ call.fault = NoFault
         /\ call.table = sc.tables[i].name)
          => /\ call.res.err = ""
             /\ call.op = "Sample"
                  => call.res.rows = RowsOf(listed[i], SampleLimit(call.limit))
             /\ call.op = "DescribeTable"
                  => /\ call.res.desc.row_count = listed[i].nrows
                     /\ call.res.desc.columns = sc.tables[i].columns
                     /\ call.res.desc.sample_data
                          = RowsOf(listed[i], DescribeSampleLimit)

\* The dialects served over the network, which need a connection string.
ServerDialects == {"postgres", "postgresql", "mysql"}

\* C22: when the configuration cannot be loaded, or a server dialect is
\* configured without a connection string, startup stops with an error: it
\* does not dereference the missing configuration and does not call the
\* connector factory.
C22_StartupNeedsDescriptor ==
  (factory.via \in {"main", "NewConnector"}
   /\ (~factory.loaded
       \/ (factory.cfg.DBType \in ServerDialects /\ factory.cfg.ConnectionString = "")))
    => /\ ~factory.main.panicked
       /\ ~factory.main.called
       /\ factory.main.logged # <<>>
       /\ conn = NoConn

\* The limit on open connections leaves a connection free whatever the
\* describeTable calls hold: there is none, or it exceeds their number.
CapacitySuffices ==
  \/ pool.maxOpen = 0
  \/ Cardinality({i \in CallIds : calls[i].op = "DescribeTable"}) < pool.maxOpen

====
